---- MODULE Spec2Model ----
(***************************************************************************)
(* Conversation stream reconciliation (ChatInterface.processedMessages)    *)
(* and the suggestion manager (useSuggestions) of deepagent-seenos-pm.     *)
(*                                                                         *)
(* Indices: the source indexes the message array from 0 and uses -1 for    *)
(* "not found"; here sequences are indexed from 1 and 0 is "not found".    *)
(***************************************************************************)
EXTENDS Integers, Sequences, FiniteSets, TLC

VARIABLES
    messages,          \* stream.messages: the flat, ordered message list
    interrupt,         \* stream.interrupt is set (an approval interrupt is open)
    skipIndices,       \* processedMessages: the skip-set of the last derivation
    processedMessages, \* processedMessages: the derived view (Map values, in order)
    threadId,          \* useSuggestions prop: the conversation id, or NoThread
    isLoading,         \* useSuggestions prop: the agent is producing output
    agentSuggestions,  \* useSuggestions prop: the set pushed by the backend
    suggestions,       \* useState: the displayed SuggestionSet
    isRefreshing,      \* useState: the "currently regenerating" flag
    prevIsLoadingRef,  \* useRef: isLoading at the previous run of the loading effect
    lastMessageIdRef,  \* useRef: the last observed agent message id (0 is null)
    prevAgentSuggestionsRef, \* useRef: the pushed set used last (<<>> is undefined)
    cache,             \* localStorage["deep-agent-suggestions-cache"], in key order
    inflight,          \* the loadSuggestions calls suspended at their await
    store,             \* the backend: the stored message list of each thread
    nextId,            \* the backend: the next fresh message id
    lastGen,           \* history: how the generation that resumed in the last step ended
    parsed,            \* generateSuggestionsWithLLM: the array JSON.parse gave
    generated,         \* generateSuggestionsWithLLM: what the call returned for it
    input,             \* ChatInterface useState: the text of the chat input
    assistant,         \* ChatInterface prop: an assistant is selected (not null)
    submitted          \* the messages handed to stream.submit, in order

viewVars == <<interrupt, skipIndices, processedMessages>>

callVars == <<parsed, generated>>

inputVars == <<input, assistant, submitted>>

hookVars == <<threadId, isLoading, agentSuggestions, suggestions, isRefreshing,
              prevIsLoadingRef, lastMessageIdRef, prevAgentSuggestionsRef, cache,
              inflight, store, nextId, lastGen>>

----------------------------------------------------------------------------
(* Bounds *)

\* the longest message list of the stream
MaxLen == 3
\* the longest message list of a stream of phase markers
MaxPhaseLen == 4
\* the number of keys written to the cache on its own
MaxWrites == 52
\* the number of entries written a second time
MaxRewrites == 1
\* the longest array a completion holds
MaxBatch == 22
\* the number of invalid items of an array
MaxInvalid == 2
\* the number of messages the backend creates over all conversations
MaxMessages == 2
\* the number of generation calls that may be suspended at once
MaxInflight == 2
\* the number of cache keys written over a run
MaxCacheEntries == 2

\* the chat input: the messages submitted
MaxSubmits == 2

----------------------------------------------------------------------------
(* Program constants of useSuggestions *)

\* DEFAULT_SUGGESTIONS has 20 entries
DefaultCount == 20
\* full.split(/\s+/).length >= 15
MinFullWords == 15
\* .slice(0, 20)
MaxSuggestions == 20
\* short.slice(0, 30)
ShortLimit == 30
\* validSuggestions.length >= 3
MinValidSuggestions == 3
\* keys.length > 50
CacheLimit == 50

----------------------------------------------------------------------------
(* JavaScript values *)

\* undefined / a field that is absent
Undef == "<undefined>"

\* x is falsy for the operands used with || and ! in the code (undefined, "")
Falsy(x) == x \in {Undef, ""}

\* a || b || c || d on strings
OrElse4(a, b, c, d) ==
    IF ~Falsy(a) THEN a ELSE IF ~Falsy(b) THEN b ELSE IF ~Falsy(c) THEN c ELSE d

----------------------------------------------------------------------------
(* Text: a string is a sequence of segments; a segment is a run of plain   *)
(* text, a phase token __PHASE_STATUS__<json>__ whose <json> parses, a     *)
(* phase token whose <json> does not parse, or the separator "\n\n".       *)

Txt(v) == [k |-> "txt", phase |-> 0, status |-> "", v |-> v]
Mark(p, s) == [k |-> "mark", phase |-> p, status |-> s, v |-> ""]
BadMark == [k |-> "badmark", phase |-> 0, status |-> "", v |-> ""]

\* message.content is a string
StrContent(segs) == [isArray |-> FALSE, segs |-> segs, blocks |-> <<>>]
\* message.content is an array of typed blocks
ArrContent(blocks) == [isArray |-> TRUE, segs |-> <<>>, blocks |-> blocks]

NoArgs == [defined |-> FALSE, subagent_type |-> Undef]
Args(sub) == [defined |-> TRUE, subagent_type |-> sub]

TextBlock(segs) ==
    [type |-> "text", segs |-> segs, id |-> Undef, name |-> Undef, input |-> NoArgs]
ToolUseBlock(id, name) ==
    [type |-> "tool_use", segs |-> <<>>, id |-> id, name |-> name, input |-> Args(Undef)]

\* one raw tool invocation of the three shapes, as the mapping at 343-369 reads it
RawCall(id, fname, name, type, fargs, args, blockInput) ==
    [id |-> id, fname |-> fname, name |-> name, type |-> type,
     fargs |-> fargs, args |-> args, input |-> blockInput]

\* an entry of message.tool_calls
TC(id, name) == RawCall(id, Undef, name, Undef, NoArgs, Args(Undef), NoArgs)
\* an entry of message.additional_kwargs.tool_calls
AKC(id, name) == RawCall(id, name, Undef, "function", Args(Undef), NoArgs, NoArgs)
\* a tool_use content block read as a raw invocation
BlockCall(b) == RawCall(b.id, Undef, b.name, b.type, NoArgs, NoArgs, b.input)

\* an optional array field
Absent == [present |-> FALSE, calls |-> <<>>]
Arr(calls) == [present |-> TRUE, calls |-> calls]

AiMsg(content, ak, tc) ==
    [type |-> "ai", content |-> content, ak |-> ak, tc |-> tc, tool_call_id |-> Undef]
HumanMsg(segs) ==
    [type |-> "human", content |-> StrContent(segs), ak |-> Absent, tc |-> Absent,
     tool_call_id |-> Undef]
ToolMsg(ref, segs) ==
    [type |-> "tool", content |-> StrContent(segs), ak |-> Absent, tc |-> Absent,
     tool_call_id |-> ref]

\* the message with its id (ids are unique and stable: the position in the stream)
WithId(m, i) ==
    [id |-> i, type |-> m.type, content |-> m.content, ak |-> m.ak, tc |-> m.tc,
     tool_call_id |-> m.tool_call_id]

----------------------------------------------------------------------------
(* Inputs: the messages the stream may deliver *)

Phases == {1, 2}

MessageTemplates ==
    {HumanMsg(<<Txt("hi")>>),
     AiMsg(StrContent(<<Txt("working...")>>), Absent, Absent),
     AiMsg(StrContent(<<Mark(1, "started")>>), Absent, Absent),
     AiMsg(StrContent(<<Mark(2, "started")>>), Absent, Absent),
     AiMsg(StrContent(<<Mark(1, "completed")>>), Absent, Absent),
     AiMsg(StrContent(<<Mark(2, "completed")>>), Absent, Absent),
     AiMsg(StrContent(<<Mark(1, "error")>>), Absent, Absent),
     AiMsg(StrContent(<<BadMark>>), Absent, Absent),
     AiMsg(StrContent(<<Mark(1, "started")>>), Absent, Arr(<<TC("t1", "search")>>)),
     AiMsg(StrContent(<<>>), Absent, Arr(<<TC("t1", "search")>>)),
     AiMsg(StrContent(<<>>), Arr(<<AKC("t2", "search")>>), Arr(<<>>)),
     AiMsg(StrContent(<<>>), Arr(<<>>), Arr(<<TC("t1", "search")>>)),
     AiMsg(StrContent(<<>>), Absent, Arr(<<TC(Undef, "search")>>)),
     AiMsg(ArrContent(<<TextBlock(<<Txt("calling")>>), ToolUseBlock("t2", "search")>>),
           Absent, Absent),
     ToolMsg("t1", <<Txt("3 results")>>),
     ToolMsg("t1", <<Txt("late")>>),
     ToolMsg("t2", <<Txt("3 results")>>),
     ToolMsg("tX", <<Txt("3 results")>>),
     ToolMsg(Undef, <<Txt("3 results")>>)}

\* the messages of a run that reports its phases: markers with and without
\* tool calls, narrative text, tool calls and their results
PhaseTemplates ==
    {HumanMsg(<<Txt("hi")>>),
     AiMsg(StrContent(<<Txt("working...")>>), Absent, Absent),
     AiMsg(StrContent(<<Mark(1, "started")>>), Absent, Absent),
     AiMsg(StrContent(<<Mark(2, "started")>>), Absent, Absent),
     AiMsg(StrContent(<<Mark(1, "completed")>>), Absent, Absent),
     AiMsg(StrContent(<<Mark(2, "completed")>>), Absent, Absent),
     AiMsg(StrContent(<<Mark(1, "error")>>), Absent, Absent),
     AiMsg(StrContent(<<Mark(1, "started")>>), Absent, Arr(<<TC("t1", "search")>>)),
     AiMsg(StrContent(<<Mark(1, "completed")>>), Absent, Arr(<<TC("t1", "search")>>)),
     AiMsg(StrContent(<<>>), Absent, Arr(<<TC("t1", "search")>>)),
     ToolMsg("t1", <<Txt("3 results")>>)}

----------------------------------------------------------------------------
(* Content Normalizer *)

RECURSIVE ConcatTextBlocks(_)
ConcatTextBlocks(blocks) ==
    IF blocks = <<>> THEN <<>>
    ELSE (IF Head(blocks).type = "text" THEN Head(blocks).segs ELSE <<>>)
         \o ConcatTextBlocks(Tail(blocks))

extractStringFromMessageContent(message) ==
    IF message.content.isArray
    THEN ConcatTextBlocks(message.content.blocks)
    ELSE message.content.segs

----------------------------------------------------------------------------
(* Phase Lifecycle Tracker: first pass of processedMessages *)

\* content.includes('__PHASE_STATUS__')
isPhaseStatusMessage(content) ==
    \E i \in 1..Len(content) : content[i].k \in {"mark", "badmark"}

\* content.match(/__PHASE_STATUS__(.+?)__/): the index of the first token, or 0
FirstTokenIndex(content) ==
    IF isPhaseStatusMessage(content)
    THEN CHOOSE i \in 1..Len(content) :
            /\ content[i].k \in {"mark", "badmark"}
            /\ \A j \in 1..(i - 1) : content[j].k \notin {"mark", "badmark"}
    ELSE 0

\* the indices that phaseStatusIndices has an entry for (236-249)
PhaseStatusKeys(msgs) ==
    {i \in 1..Len(msgs) :
        /\ msgs[i].type = "ai"
        /\ LET content == extractStringFromMessageContent(msgs[i])
           IN  /\ isPhaseStatusMessage(content)
               /\ content[FirstTokenIndex(content)].k = "mark"}

\* phaseStatusIndices.get(i), for i in PhaseStatusKeys(msgs)
PhaseStatusAt(msgs, i) ==
    LET content == extractStringFromMessageContent(msgs[i])
        seg == content[FirstTokenIndex(content)]
    IN  [phase |-> seg.phase, status |-> seg.status]

\* completedPhases (252-257)
CompletedPhases(msgs) ==
    {PhaseStatusAt(msgs, i).phase : i \in
        {k \in PhaseStatusKeys(msgs) : PhaseStatusAt(msgs, k).status = "completed"}}

Max0(S) == IF S = {} THEN 0 ELSE CHOOSE x \in S : \A y \in S : y <= x

\* the scan of 269-277 assigns on every match, so the last match stays
StartedIndex(msgs, phase) ==
    Max0({i \in PhaseStatusKeys(msgs) :
            /\ PhaseStatusAt(msgs, i).phase = phase
            /\ PhaseStatusAt(msgs, i).status = "started"})

CompletedIndex(msgs, phase) ==
    Max0({i \in PhaseStatusKeys(msgs) :
            /\ PhaseStatusAt(msgs, i).phase = phase
            /\ PhaseStatusAt(msgs, i).status = "completed"})

\* hasToolCalls that forgets the first-class tool_calls array
hasToolCalls_withoutToolCallsArray(msg) ==
    \/ msg.ak.present /\ Len(msg.ak.calls) > 0
    \/ /\ msg.content.isArray
       /\ \E b \in 1..Len(msg.content.blocks) : msg.content.blocks[b].type = "tool_use"

\* hasToolCalls (292-296)
hasToolCalls(msg) ==
    \/ msg.ak.present /\ Len(msg.ak.calls) > 0
    \/ msg.tc.present /\ Len(msg.tc.calls) > 0
    \/ /\ msg.content.isArray
       /\ \E b \in 1..Len(msg.content.blocks) : msg.content.blocks[b].type = "tool_use"

\* what one completed phase adds to skipIndices (280-306)
PhaseSkip(msgs, phase) ==
    LET startedIndex == StartedIndex(msgs, phase)
        completedIndex == CompletedIndex(msgs, phase)
    IN  IF startedIndex # 0 /\ completedIndex # 0
        THEN {startedIndex} \cup
             {j \in (startedIndex + 1)..(completedIndex - 1) :
                 msgs[j].type = "ai" /\ ~hasToolCalls(msgs[j])}
        ELSE {}

\* skipIndices (260-307)
SkipIndices(msgs) == UNION {PhaseSkip(msgs, phase) : phase \in CompletedPhases(msgs)}

----------------------------------------------------------------------------
(* Tool-Call Correlator: second pass of processedMessages *)

\* `tool-${Math.random()}` for the j-th invocation of the i-th message: a fresh
\* string that differs from every other draw and from every id in the stream
\* the values Math.random() takes in one derivation
Seeds == {1, 2}

\* a fallback id drawn from a space that holds the ids of the backend
RandomToolId_collidingWithIds(seed, i, j) ==
    IF seed = 1 THEN "t1"
    ELSE "tool-0." \o ToString(seed) \o ToString(i) \o "." \o ToString(j)

RandomToolId(seed, i, j) ==
    "tool-0." \o ToString(seed) \o ToString(i) \o "." \o ToString(j)

RECURSIVE ToolUseBlocks(_)
ToolUseBlocks(blocks) ==
    IF blocks = <<>> THEN <<>>
    ELSE (IF Head(blocks).type = "tool_use" THEN <<BlockCall(Head(blocks))>> ELSE <<>>)
         \o ToolUseBlocks(Tail(blocks))

NameNotEmpty(toolCall) == toolCall.name # ""

\* toolCallsInMessage (318-342)
ToolCallsInMessage(message) ==
    IF message.ak.present THEN message.ak.calls
    ELSE IF message.tc.present THEN SelectSeq(message.tc.calls, NameNotEmpty)
    ELSE IF message.content.isArray THEN ToolUseBlocks(message.content.blocks)
    ELSE <<>>

\* function.arguments || args || input || {}
ResolveArgs(toolCall) ==
    IF toolCall.fargs.defined THEN toolCall.fargs
    ELSE IF toolCall.args.defined THEN toolCall.args
    ELSE IF toolCall.input.defined THEN toolCall.input
    ELSE Args(Undef)

\* toolCallsWithStatus (343-369)
ToolCallsWithStatus(message, index, intr, seed) ==
    LET raw == ToolCallsInMessage(message)
    IN  [j \in 1..Len(raw) |->
            [id |-> IF Falsy(raw[j].id) THEN RandomToolId(seed, index, j) ELSE raw[j].id,
             name |-> OrElse4(raw[j].fname, raw[j].name, raw[j].type, "unknown"),
             args |-> ResolveArgs(raw[j]),
             status |-> IF intr THEN "interrupted" ELSE "pending",
             hasResult |-> FALSE,
             result |-> <<>>]]

\* Map.prototype.set: an existing key keeps its place, a new key goes last
MapSet(map, entry) ==
    IF \E k \in 1..Len(map) : map[k].message.id = entry.message.id
    THEN [k \in 1..Len(map) |->
            IF map[k].message.id = entry.message.id THEN entry ELSE map[k]]
    ELSE Append(map, entry)

\* toolCalls.findIndex(tc => tc.id === toolCallId), or 0
FindToolCallIndex(toolCalls, toolCallId) ==
    IF \E j \in 1..Len(toolCalls) : toolCalls[j].id = toolCallId
    THEN CHOOSE j \in 1..Len(toolCalls) :
            /\ toolCalls[j].id = toolCallId
            /\ \A h \in 1..(j - 1) : toolCalls[h].id # toolCallId
    ELSE 0

\* the loop over messageMap.entries() of 379-392: the first entry that has a
\* tool call with this id gets that tool call completed, then the loop breaks
CompleteToolCall(map, toolCallId, result) ==
    LET hits == {k \in 1..Len(map) : FindToolCallIndex(map[k].toolCalls, toolCallId) # 0}
    IN  IF hits = {} THEN map
        ELSE LET k == CHOOSE x \in hits : \A y \in hits : x <= y
                 j == FindToolCallIndex(map[k].toolCalls, toolCallId)
             IN  [map EXCEPT ![k].toolCalls[j] =
                     [@ EXCEPT !.status = "completed",
                               !.hasResult = TRUE,
                               !.result = result]]

\* the body of messages.forEach at 311-399 for the message at index
ProcessMessage(map, msgs, index, skip, intr, seed) ==
    LET message == msgs[index]
    IN  IF index \in skip THEN map
        ELSE IF message.type = "ai"
        THEN MapSet(map, [message |-> message,
                          toolCalls |-> ToolCallsWithStatus(message, index, intr, seed)])
        ELSE IF message.type = "tool"
        THEN IF Falsy(message.tool_call_id) THEN map
             ELSE CompleteToolCall(map, message.tool_call_id,
                                   extractStringFromMessageContent(message))
        ELSE IF message.type = "human"
        THEN MapSet(map, [message |-> message, toolCalls |-> <<>>])
        ELSE map

RECURSIVE MessageMapUpTo(_, _, _, _, _)
MessageMapUpTo(msgs, n, skip, intr, seed) ==
    IF n = 0 THEN <<>>
    ELSE ProcessMessage(MessageMapUpTo(msgs, n - 1, skip, intr, seed), msgs, n, skip,
                        intr, seed)

\* messageMap after the second pass
MessageMap(msgs, intr, seed) ==
    MessageMapUpTo(msgs, Len(msgs), SkipIndices(msgs), intr, seed)

\* processedMessages (223-408): Array.from(messageMap.values()) with showAvatar
ProcessedMessages(msgs, intr, seed) ==
    LET processedArray == MessageMap(msgs, intr, seed)
    IN  [k \in 1..Len(processedArray) |->
            [message |-> processedArray[k].message,
             toolCalls |-> processedArray[k].toolCalls,
             showAvatar |-> IF k = 1 THEN TRUE
                            ELSE processedArray[k].message.type
                                 # processedArray[k - 1].message.type]]

----------------------------------------------------------------------------
(* Suggestion Manager: values *)

\* threadId is null
NoThread == "<null>"
Threads == {"T1"}

\* a string field of a suggestion: which text, its length in characters (short)
\* and the length of its split(/\s+/) (full)
Str(txt, n, len, words) ==
    [kind |-> "string", txt |-> txt, n |-> n, len |-> len, words |-> words]
\* the field is missing
Missing == [kind |-> "missing", txt |-> "", n |-> 0, len |-> 0, words |-> 0]
\* the field is there and is no string
NotString == [kind |-> "other", txt |-> "", n |-> 0, len |-> 0, words |-> 0]

Suggestion(short, full) == [short |-> short, full |-> full]

\* DEFAULT_SUGGESTIONS (14-95)
DEFAULT_SUGGESTIONS ==
    [i \in 1..DefaultCount |->
        Suggestion(Str("default-short", i, 16, 2), Str("default-full", i, 260, 36))]

\* the sets the backend may push
PushedSets ==
    {<<Suggestion(Str("p1", 1, 8, 2), Str("p1-full", 1, 120, 20))>>}

\* getConfig(): the active provider and whether its API key is set
Config(provider, hasKey) == [activeProvider |-> provider, hasKey |-> hasKey]
Configs ==
    {Config("openai", TRUE), Config("anthropic", TRUE), Config("openrouter", FALSE)}

\* what the completion call may come back with
NoResponse == [kind |-> "none", items |-> <<>>]
Responses ==
    {[kind |-> k, items |-> <<>>] :
        k \in {"fetchThrows", "notOk", "bodyNotJson", "noContent", "contentNotJson",
               "notArray"}}
    \cup
    {[kind |-> "array", items |-> b] : b \in
        {<<>>,
         <<Suggestion(Str("g2", 1, 40, 6), Str("g2-full", 1, 100, 15)),
           Suggestion(Str("g2", 2, 12, 3), Str("g2-full", 2, 90, 14)),
           Suggestion(Str("g2", 3, 12, 3), Str("g2-full", 3, 150, 22)),
           Suggestion(Str("g2", 4, 12, 3), Str("g2-full", 4, 150, 22))>>,
         <<Suggestion(Str("g3", 1, 12, 3), Str("g3-full", 1, 150, 22)),
           Suggestion(Str("g3", 2, 12, 3), Str("g3-full", 2, 150, 22)),
           Suggestion(Str("g3", 3, 12, 3), Missing),
           Suggestion(NotString, Str("g3-full", 4, 150, 22))>>,
         <<Suggestion(Str("ok", 1, 2, 1), Missing)>>}}

----------------------------------------------------------------------------
(* Suggestion Manager: the cache *)

\* `${cacheKey}_${id}` with cacheKey = threadId || "new"
CacheKey(thread, id) ==
    [thread |-> IF thread = NoThread THEN "new" ELSE thread, id |-> id]

CacheHas(c, key) == \E k \in 1..Len(c) : c[k].key = key

\* getCachedSuggestions (101-111), for a key the cache has
getCachedSuggestions(c, key) ==
    c[CHOOSE k \in 1..Len(c) : c[k].key = key].value

\* a variant that drops the keys after the first 50
saveSuggestionsToCache_keepingOldest(c, key, value) ==
    LET cacheMap == IF \E k \in 1..Len(c) : c[k].key = key
                    THEN [k \in 1..Len(c) |->
                            IF c[k].key = key THEN [key |-> key, value |-> value]
                            ELSE c[k]]
                    ELSE Append(c, [key |-> key, value |-> value])
    IN  IF Len(cacheMap) > CacheLimit
        THEN SubSeq(cacheMap, 1, CacheLimit)
        ELSE cacheMap

\* saveSuggestionsToCache (114-132): Object.keys is in insertion order and an
\* assignment to an existing key keeps its place
saveSuggestionsToCache(c, key, value) ==
    LET cacheMap == IF CacheHas(c, key)
                    THEN [k \in 1..Len(c) |->
                            IF c[k].key = key THEN [key |-> key, value |-> value]
                            ELSE c[k]]
                    ELSE Append(c, [key |-> key, value |-> value])
    IN  IF Len(cacheMap) > CacheLimit
        THEN SubSeq(cacheMap, Len(cacheMap) - CacheLimit + 1, Len(cacheMap))
        ELSE cacheMap

----------------------------------------------------------------------------
(* Suggestion Manager: generation *)

\* the provider branches of 218-237 return the defaults without any request
ReturnsBeforeRequest(config) ==
    \/ config.activeProvider \in {"anthropic", "google"} /\ config.hasKey
    \/ ~(config.activeProvider \in {"openai", "openrouter"} /\ config.hasKey)

\* the filter of 332-339
ValidSuggestion(s) ==
    /\ s.short.kind = "string"
    /\ s.full.kind = "string"
    /\ s.full.words >= MinFullWords

Min(a, b) == IF a <= b THEN a ELSE b

\* a variant that keeps every valid item
ValidSuggestions_unsliced(items) ==
    LET valid == SelectSeq(items, ValidSuggestion)
    IN  [k \in 1..Len(valid) |->
            Suggestion([valid[k].short EXCEPT !.len = Min(@, ShortLimit)], valid[k].full)]

\* validSuggestions (331-344)
ValidSuggestions(items) ==
    LET valid == SelectSeq(items, ValidSuggestion)
        kept == SubSeq(valid, 1, Min(Len(valid), MaxSuggestions))
    IN  [k \in 1..Len(kept) |->
            Suggestion([kept[k].short EXCEPT !.len = Min(@, ShortLimit)], kept[k].full)]

\* a variant whose fallback is the empty list instead of the defaults
generateSuggestionsWithLLM_emptyFallback(config, response) ==
    IF ReturnsBeforeRequest(config) THEN <<>>
    ELSE IF response.kind = "array" /\ Len(response.items) > 0
            /\ Len(ValidSuggestions(response.items)) >= MinValidSuggestions
    THEN ValidSuggestions(response.items)
    ELSE <<>>

\* generateSuggestionsWithLLM (209-361): what the promise resolves to
generateSuggestionsWithLLM(config, response) ==
    IF ReturnsBeforeRequest(config) THEN DEFAULT_SUGGESTIONS
    ELSE IF response.kind = "array" /\ Len(response.items) > 0
            /\ Len(ValidSuggestions(response.items)) >= MinValidSuggestions
    THEN ValidSuggestions(response.items)
    ELSE DEFAULT_SUGGESTIONS

OpenAiConfig == [activeProvider |-> "openai", hasKey |-> TRUE]

\* the generation fell back to the defaults
GenerationFailed(config, response) ==
    \/ ReturnsBeforeRequest(config)
    \/ response.kind # "array"
    \/ Len(SelectSeq(response.items, ValidSuggestion)) < MinValidSuggestions

----------------------------------------------------------------------------
(* ChatMessage: the projections of the tool calls *)

\* an entry of message.tool_calls that delegates to a sub-agent
TaskTC(id, sub) == RawCall(id, Undef, "task", Undef, NoArgs, Args(sub), NoArgs)

\* the messages of a run that delegates: task calls with a target agent, with
\* an empty one and with none, other calls, text, markers and results
DelegationTemplates ==
    {HumanMsg(<<Txt("hi")>>),
     AiMsg(StrContent(<<Txt("working...")>>), Absent, Absent),
     AiMsg(StrContent(<<>>), Absent, Arr(<<TaskTC("t1", "researcher")>>)),
     AiMsg(StrContent(<<>>), Absent, Arr(<<TaskTC("t1", "")>>)),
     AiMsg(StrContent(<<>>), Absent, Arr(<<TaskTC("t1", Undef)>>)),
     AiMsg(StrContent(<<>>), Absent, Arr(<<TC("t2", "search")>>)),
     AiMsg(StrContent(<<>>), Absent,
           Arr(<<TaskTC("t1", "researcher"), TC("t2", "search")>>)),
     AiMsg(StrContent(<<Mark(1, "started")>>), Absent,
           Arr(<<TaskTC("t1", "researcher")>>)),
     AiMsg(StrContent(<<Mark(1, "completed")>>), Absent, Absent),
     ToolMsg("t1", <<Txt("3 results")>>)}

\* the filter of subAgents (178-185)
IsSubAgentCall(toolCall) ==
    /\ toolCall.name = "task"
    /\ ~Falsy(toolCall.args.subagent_type)

\* the filter of displayableToolCalls (211)
NotTask(toolCall) == toolCall.name # "task"

\* subAgents (176-199)
subAgents(toolCalls) ==
    LET delegated == SelectSeq(toolCalls, IsSubAgentCall)
    IN  [k \in 1..Len(delegated) |->
            [id |-> delegated[k].id,
             name |-> delegated[k].name,
             subAgentName |-> delegated[k].args.subagent_type,
             input |-> delegated[k].args,
             hasOutput |-> delegated[k].hasResult /\ delegated[k].result # <<>>,
             output |-> delegated[k].result,
             status |-> delegated[k].status]]

\* displayableToolCalls (210-213)
displayableToolCalls(toolCalls) == SelectSeq(toolCalls, NotTask)

----------------------------------------------------------------------------
(* ChatMessage: the detail text of a completed phase marker *)

\* parsePhaseStatus (33-44): the first token of the content, when it parses
parsePhaseStatus(content) ==
    IF isPhaseStatusMessage(content) /\ content[FirstTokenIndex(content)].k = "mark"
    THEN [isNull |-> FALSE,
          phase |-> content[FirstTokenIndex(content)].phase,
          status |-> content[FirstTokenIndex(content)].status]
    ELSE [isNull |-> TRUE, phase |-> 0, status |-> ""]

\* content.trim() is not empty
NotBlank(content) == \E i \in 1..Len(content) : content[i].k # "txt" \/ content[i].v # ""

\* detailMessages.join("\n\n")
RECURSIVE JoinDetails(_)
JoinDetails(texts) ==
    IF Len(texts) = 0 THEN <<>>
    ELSE IF Len(texts) = 1 THEN texts[1]
    ELSE texts[1] \o <<Txt("\n\n")>> \o JoinDetails(Tail(texts))

\* the texts of the messages of msgs at the indices from lo to hi that keep
RECURSIVE DetailMessages(_, _, _)
DetailMessages(msgs, lo, hi) ==
    IF lo > hi THEN <<>>
    ELSE LET content == extractStringFromMessageContent(msgs[lo])
         IN  (IF /\ msgs[lo].type = "ai"
                 /\ parsePhaseStatus(content).isNull
                 /\ NotBlank(content)
              THEN <<content>> ELSE <<>>)
             \o DetailMessages(msgs, lo + 1, hi)

NoDetails == [isNull |-> TRUE, text |-> <<>>]

\* phaseDetails (128-174) of the message at completedIndex of allMessages
phaseDetails(allMessages, completedIndex) ==
    LET message == allMessages[completedIndex]
        phaseStatus == IF message.type = "human"
                       THEN parsePhaseStatus(<<>>)
                       ELSE parsePhaseStatus(extractStringFromMessageContent(message))
        startedIndex ==
            Max0({i \in 1..(completedIndex - 1) :
                    LET status == parsePhaseStatus(
                                      extractStringFromMessageContent(allMessages[i]))
                    IN  /\ ~status.isNull
                        /\ status.phase = phaseStatus.phase
                        /\ status.status = "started"})
        detailMessages == DetailMessages(allMessages, startedIndex + 1, completedIndex - 1)
    IN  IF phaseStatus.isNull \/ phaseStatus.status # "completed" THEN NoDetails
        ELSE IF startedIndex = 0 THEN NoDetails
        ELSE IF Len(detailMessages) > 0
        THEN [isNull |-> FALSE, text |-> JoinDetails(detailMessages)]
        ELSE NoDetails

----------------------------------------------------------------------------
(* Suggestion Manager: the hook.  p is the props of the render             *)
(* [threadId, messages, isLoading, agentSuggestions]; h is the hook's      *)
(* state and refs.                                                         *)

\* getLastAIMessageContext (196-206): the index of the last ai message, or 0
LastAIIndex(msgs) == Max0({i \in 1..Len(msgs) : msgs[i].type = "ai"})

\* the id getLastAIMessageContext returns, for a list that has an ai message
getLastAIMessageContext(msgs) == msgs[LastAIIndex(msgs)].id

\* messages.find(...) of 185-187: the index of the first message that is the
\* last one or has no ai message after it, or 0 for the empty list
FindLastAIMessage(msgs) ==
    IF msgs = <<>> THEN 0
    ELSE CHOOSE i \in 1..Len(msgs) :
            /\ \A j \in (i + 1)..Len(msgs) : msgs[j].type # "ai"
            /\ \A h \in 1..(i - 1) : \E j \in (h + 1)..Len(msgs) : msgs[j].type = "ai"

\* the effect of 175-193
AgentSuggestionsEffect(p, h) ==
    IF Len(p.agentSuggestions) > 0 /\ p.agentSuggestions # h.prevAgentSuggestionsRef
    THEN [h EXCEPT
            !.suggestions = p.agentSuggestions,
            !.prevAgentSuggestionsRef = p.agentSuggestions,
            !.cache = IF FindLastAIMessage(p.messages) # 0
                      THEN saveSuggestionsToCache(@,
                               CacheKey(p.threadId,
                                        p.messages[FindLastAIMessage(p.messages)].id),
                               p.agentSuggestions)
                      ELSE @]
    ELSE h

\* loadSuggestions (364-400) up to its await; the call that suspends is put in
\* h.inflight with the key it captured
loadSuggestions(p, h, config) ==
    IF LastAIIndex(p.messages) = 0 \/ Len(p.messages) = 0
    THEN [h EXCEPT !.suggestions = DEFAULT_SUGGESTIONS]
    ELSE LET cachedKey == CacheKey(p.threadId, getLastAIMessageContext(p.messages))
         IN  IF CacheHas(h.cache, cachedKey)
             THEN [h EXCEPT !.suggestions = getCachedSuggestions(h.cache, cachedKey)]
             ELSE [h EXCEPT
                     !.isRefreshing = TRUE,
                     !.inflight = Append(@, [key |-> cachedKey,
                                             returned |-> ReturnsBeforeRequest(config)])]

\* the effect of 403-428 without the write of lastMessageIdRef before the call
LoadingEffect_withoutObservedId(p, h, config) ==
    LET wasLoading == h.prevIsLoadingRef
        h1 == [h EXCEPT !.prevIsLoadingRef = p.isLoading]
    IN  IF wasLoading /\ ~p.isLoading /\ Len(p.messages) > 0
           /\ LastAIIndex(p.messages) # 0
           /\ getLastAIMessageContext(p.messages) # h.lastMessageIdRef
        THEN LET id == getLastAIMessageContext(p.messages)
                 cachedKey == CacheKey(p.threadId, id)
             IN  IF CacheHas(h1.cache, cachedKey)
                 THEN [h1 EXCEPT !.suggestions = getCachedSuggestions(h1.cache, cachedKey),
                                 !.lastMessageIdRef = id]
                 ELSE loadSuggestions(p, h1, config)
        ELSE h1

\* the effect of 403-428
LoadingEffect(p, h, config) ==
    LET wasLoading == h.prevIsLoadingRef
        h1 == [h EXCEPT !.prevIsLoadingRef = p.isLoading]
    IN  IF wasLoading /\ ~p.isLoading /\ Len(p.messages) > 0
           /\ LastAIIndex(p.messages) # 0
           /\ getLastAIMessageContext(p.messages) # h.lastMessageIdRef
        THEN LET id == getLastAIMessageContext(p.messages)
                 cachedKey == CacheKey(p.threadId, id)
             IN  IF CacheHas(h1.cache, cachedKey)
                 THEN [h1 EXCEPT !.suggestions = getCachedSuggestions(h1.cache, cachedKey),
                                 !.lastMessageIdRef = id]
                 ELSE loadSuggestions(p, [h1 EXCEPT !.lastMessageIdRef = id],
                                      config)
        ELSE h1

\* the effect of 431-460
ThreadEffect(p, h, config) ==
    LET reset == IF Len(p.messages) = 0
                 THEN [h EXCEPT !.suggestions = DEFAULT_SUGGESTIONS,
                                !.lastMessageIdRef = 0]
                 ELSE h
    IN  IF LastAIIndex(p.messages) # 0
        THEN LET id == getLastAIMessageContext(p.messages)
                 cachedKey == CacheKey(p.threadId, id)
             IN  IF CacheHas(h.cache, cachedKey)
                 THEN [h EXCEPT !.suggestions = getCachedSuggestions(h.cache, cachedKey),
                                !.lastMessageIdRef = id]
                 ELSE IF id # h.lastMessageIdRef /\ ~p.isLoading
                 THEN loadSuggestions(p, [h EXCEPT !.lastMessageIdRef = id],
                                      config)
                 ELSE reset
        ELSE reset

\* loadSuggestions after its await without the finally block of 397-399
ResumeLoadSuggestions_withoutFinally(h, k, newSuggestions) ==
    [h EXCEPT
        !.cache = saveSuggestionsToCache(@, h.inflight[k].key, newSuggestions),
        !.suggestions = newSuggestions,
        !.inflight = SubSeq(@, 1, k - 1) \o SubSeq(@, k + 1, Len(@))]

\* loadSuggestions after its await (391-399), for the k-th suspended call
ResumeLoadSuggestions(h, k, newSuggestions) ==
    [h EXCEPT
        !.cache = saveSuggestionsToCache(@, h.inflight[k].key, newSuggestions),
        !.suggestions = newSuggestions,
        !.isRefreshing = FALSE,
        !.inflight = SubSeq(@, 1, k - 1) \o SubSeq(@, k + 1, Len(@))]

\* the calls whose generateSuggestionsWithLLM returned before any request resume
\* as soon as the effects of the commit are through
RECURSIVE SettleReturned(_, _)
SettleReturned(h, config) ==
    LET ready == {k \in 1..Len(h.inflight) : h.inflight[k].returned}
    IN  IF ready = {} THEN h
        ELSE SettleReturned(
                ResumeLoadSuggestions(h, CHOOSE k \in ready : \A x \in ready : k <= x,
                                      generateSuggestionsWithLLM(config, NoResponse)),
                config)

\* the effects of one commit, in the order of their declaration; an effect runs
\* when one of its dependencies changed
RunEffects(p, h, config, runAgentEffect, runLoadEffects) ==
    LET h1 == IF runAgentEffect THEN AgentSuggestionsEffect(p, h) ELSE h
        h2 == IF runLoadEffects THEN LoadingEffect(p, h1, config) ELSE h1
        h3 == IF runLoadEffects THEN ThreadEffect(p, h2, config) ELSE h2
    IN  h3

----------------------------------------------------------------------------
(* The state machine *)

Derive ==
    /\ skipIndices' = SkipIndices(messages')
    /\ \E seed \in Seeds :
          processedMessages' = ProcessedMessages(messages', interrupt', seed)

HookState ==
    [suggestions |-> suggestions,
     isRefreshing |-> isRefreshing,
     prevIsLoadingRef |-> prevIsLoadingRef,
     lastMessageIdRef |-> lastMessageIdRef,
     prevAgentSuggestionsRef |-> prevAgentSuggestionsRef,
     cache |-> cache,
     inflight |-> inflight]

SetHookState(h) ==
    /\ suggestions' = h.suggestions
    /\ isRefreshing' = h.isRefreshing
    /\ prevIsLoadingRef' = h.prevIsLoadingRef
    /\ lastMessageIdRef' = h.lastMessageIdRef
    /\ prevAgentSuggestionsRef' = h.prevAgentSuggestionsRef
    /\ cache' = h.cache
    /\ inflight' = h.inflight

\* the cache stays within the bound of the model when every suspended call
\* has written its key
HasRoom(h) ==
    Len(h.cache)
      + Cardinality({h.inflight[k].key : k \in 1..Len(h.inflight)}
                       \ {h.cache[c].key : c \in 1..Len(h.cache)})
        <= MaxCacheEntries

NoGen == "none"

\* how a generation ended: with the defaults and no request, with the defaults
\* after a request, or with a validated batch
GenRecord(config, response) ==
    IF ReturnsBeforeRequest(config) THEN "noRequest"
    ELSE IF GenerationFailed(config, response) THEN "failed"
    ELSE "generated"

\* a commit with new props: the effects run, then a call that returned without
\* a request resumes.  getConfig() is read only when a generation starts.
Commit(newThreadId, newMessages, newIsLoading, newAgentSuggestions, touched) ==
    LET p == [threadId |-> newThreadId, messages |-> newMessages,
              isLoading |-> newIsLoading, agentSuggestions |-> newAgentSuggestions]
        runAgentEffect == \/ newAgentSuggestions # agentSuggestions
                          \/ newThreadId # threadId
                          \/ touched
        runLoadEffects == \/ newIsLoading # isLoading
                          \/ newThreadId # threadId
                          \/ touched
        starts == Len(RunEffects(p, HookState, OpenAiConfig, runAgentEffect,
                                 runLoadEffects).inflight) > Len(inflight)
    IN  \E config \in IF starts THEN Configs ELSE {OpenAiConfig} :
          LET h == RunEffects(p, HookState, config, runAgentEffect, runLoadEffects)
          IN  /\ Len(h.inflight) <= MaxInflight
              /\ HasRoom(SettleReturned(h, config))
              /\ threadId' = newThreadId
              /\ messages' = newMessages
              /\ isLoading' = newIsLoading
              /\ agentSuggestions' = newAgentSuggestions
              /\ SetHookState(SettleReturned(h, config))
              /\ lastGen' = IF starts /\ ReturnsBeforeRequest(config)
                            THEN GenRecord(config, NoResponse)
                            ELSE NoGen
              /\ interrupt' = interrupt
              /\ Derive
              /\ UNCHANGED <<callVars, inputVars>>

\* the backend stores the list of a conversation that has an id
Stored(newThreadId, newMessages) ==
    IF newThreadId \in Threads THEN [store EXCEPT ![newThreadId] = newMessages] ELSE store

\* the call has not returned
NotReturned == [done |-> FALSE, value |-> <<>>]
Returned(value) == [done |-> TRUE, value |-> value]

\* the items a completion may hold at position n: a valid one (its label
\* longer than the limit at even positions), one whose full text is a word
\* short, one without full text, one whose label is no string
BatchItems(n) ==
    [valid |-> Suggestion(Str("s", n, IF n % 2 = 0 THEN 40 ELSE 12, 3),
                          Str("f", n, 150, MinFullWords + (n % 2))),
     short |-> Suggestion(Str("s", n, 12, 3), Str("f", n, 90, MinFullWords - 1)),
     noFull |-> Suggestion(Str("s", n, 12, 3), Missing),
     noLabel |-> Suggestion(NotString, Str("f", n, 150, 22))]

Init ==
    /\ messages = <<>>
    /\ interrupt = FALSE
    /\ skipIndices = {}
    /\ processedMessages = <<>>
    /\ threadId = NoThread
    /\ isLoading = FALSE
    /\ agentSuggestions = <<>>
    /\ suggestions = DEFAULT_SUGGESTIONS
    /\ isRefreshing = FALSE
    /\ prevIsLoadingRef = FALSE
    /\ lastMessageIdRef = 0
    /\ prevAgentSuggestionsRef = <<>>
    /\ cache = <<>>
    /\ inflight = <<>>
    /\ store = [t \in Threads |-> <<>>]
    /\ nextId = 1
    /\ lastGen = NoGen
    /\ parsed = <<>>
    /\ generated = NotReturned
    /\ input = <<>>
    /\ assistant = FALSE
    /\ submitted = <<>>

(* ChatInterface alone: the message list grows by appending, the interrupt *)
(* opens and closes, and the view is re-derived on every change (useMemo   *)
(* over [messages, interrupt]).                                            *)

AppendMessage ==
    /\ Len(messages) < MaxLen
    /\ \E m \in MessageTemplates :
          messages' = Append(messages, WithId(m, Len(messages) + 1))
    /\ interrupt' = interrupt
    /\ Derive
    /\ UNCHANGED hookVars
    /\ UNCHANGED <<callVars, inputVars>>

SetInterrupt ==
    /\ interrupt' = ~interrupt
    /\ messages' = messages
    /\ Derive
    /\ UNCHANGED hookVars
    /\ UNCHANGED <<callVars, inputVars>>

(* useSuggestions: the props change with the events of the stream *)

\* the user submits (with a new human message) or the run is continued; the
\* values of the new run carry no pushed set yet
StartTurn ==
    /\ ~isLoading
    /\ \E human \in BOOLEAN :
          /\ human => nextId <= MaxMessages
          /\ LET newMessages == IF human
                                THEN Append(messages, WithId(HumanMsg(<<Txt("hi")>>), nextId))
                                ELSE messages
             IN  /\ Commit(threadId, newMessages, TRUE, <<>>, human)
                 /\ store' = Stored(threadId, newMessages)
          /\ nextId' = IF human THEN nextId + 1 ELSE nextId

\* the stream delivers a message, possibly with a pushed set, possibly as the
\* last event of the turn
StreamMessage ==
    /\ isLoading
    /\ nextId <= MaxMessages
    /\ \E m \in {AiMsg(StrContent(<<Txt("working...")>>), Absent, Absent),
                 ToolMsg("t1", <<Txt("3 results")>>)} :
       \E push \in {agentSuggestions} \cup PushedSets :
       \E finish \in BOOLEAN :
          LET newMessages == Append(messages, WithId(m, nextId))
          IN  /\ Commit(threadId, newMessages, ~finish, push, TRUE)
              /\ store' = Stored(threadId, newMessages)
    /\ nextId' = nextId + 1

\* the turn ends: the loading flag goes back to false
FinishTurn ==
    /\ isLoading
    /\ Commit(threadId, messages, FALSE, agentSuggestions, FALSE)
    /\ UNCHANGED <<store, nextId>>

\* the backend pushes a suggestion set (stream.values.suggestions changes)
PushSuggestions ==
    /\ \E push \in PushedSets \ {agentSuggestions} :
          Commit(threadId, messages, isLoading, push, FALSE)
    /\ UNCHANGED <<store, nextId>>

\* the first submit of a new conversation gets its thread id (onThreadId)
ThreadCreated ==
    /\ threadId = NoThread
    /\ messages # <<>>
    /\ \E t \in Threads :
          /\ store[t] = <<>>
          /\ Commit(t, messages, isLoading, agentSuggestions, FALSE)
          /\ store' = [store EXCEPT ![t] = messages]
    /\ UNCHANGED nextId

\* the user opens another conversation (or a new one); its list is empty until
\* the history is there
SwitchThread ==
    /\ \E t \in (Threads \cup {NoThread}) \ {threadId} :
       \E loaded \in BOOLEAN :
          Commit(t, IF loaded /\ t \in Threads THEN store[t] ELSE <<>>, FALSE, <<>>,
                 TRUE)
    /\ UNCHANGED <<store, nextId>>

\* the history of the conversation is (re)loaded
HistoryLoaded ==
    /\ threadId \in Threads
    /\ ~isLoading
    /\ store[threadId] # <<>>
    /\ Commit(threadId, store[threadId], isLoading, agentSuggestions, TRUE)
    /\ UNCHANGED <<store, nextId>>

\* refreshSuggestions(): loadSuggestions of the current render, called by hand
RefreshSuggestions ==
    /\ \E config \in Configs :
          LET p == [threadId |-> threadId, messages |-> messages,
                    isLoading |-> isLoading, agentSuggestions |-> agentSuggestions]
              h == loadSuggestions(p, HookState, config)
          IN  /\ Len(h.inflight) <= MaxInflight
              /\ HasRoom(SettleReturned(h, config))
              /\ SetHookState(SettleReturned(h, config))
              /\ lastGen' = IF Len(h.inflight) > Len(inflight)
                               /\ ReturnsBeforeRequest(config)
                            THEN GenRecord(config, NoResponse)
                            ELSE NoGen
    /\ UNCHANGED <<messages, viewVars, threadId, isLoading, agentSuggestions, store,
                   nextId, callVars, inputVars>>

\* the completion call of a suspended loadSuggestions comes back
GenerationCompletes ==
    /\ \E k \in 1..Len(inflight) :
       \E outcome \in {<<generateSuggestionsWithLLM(OpenAiConfig, response),
                         GenRecord(OpenAiConfig, response)>> : response \in Responses} :
          /\ Len(ResumeLoadSuggestions(HookState, k, outcome[1]).cache)
                <= MaxCacheEntries
          /\ SetHookState(ResumeLoadSuggestions(HookState, k, outcome[1]))
          /\ lastGen' = outcome[2]
    /\ UNCHANGED <<messages, viewVars, threadId, isLoading, agentSuggestions, store,
                   nextId, callVars, inputVars>>

\* a run that reports its phases delivers a message
AppendPhaseMessage ==
    /\ Len(messages) < MaxPhaseLen
    /\ \E m \in PhaseTemplates :
          messages' = Append(messages, WithId(m, Len(messages) + 1))
    /\ interrupt' = interrupt
    /\ Derive
    /\ UNCHANGED hookVars
    /\ UNCHANGED <<callVars, inputVars>>

\* a run that delegates to sub-agents delivers a message
AppendDelegationMessage ==
    /\ Len(messages) < MaxLen
    /\ \E m \in DelegationTemplates :
          messages' = Append(messages, WithId(m, Len(messages) + 1))
    /\ interrupt' = interrupt
    /\ Derive
    /\ UNCHANGED hookVars
    /\ UNCHANGED <<callVars, inputVars>>

(* generateSuggestionsWithLLM alone: the parsed array of a completion is   *)
(* any array of valid and invalid items, and the call returns for it       *)

\* the completion holds one more item
AddItem ==
    /\ Len(parsed) < MaxBatch
    /\ \E kind \in {"valid", "short", "noFull", "noLabel"} :
          /\ kind # "valid"
                => Cardinality({k \in 1..Len(parsed) :
                                    parsed[k] # BatchItems(k).valid}) < MaxInvalid
          /\ parsed' = Append(parsed, BatchItems(Len(parsed) + 1)[kind])
    /\ generated' = NotReturned
    /\ UNCHANGED <<messages, viewVars, hookVars, inputVars>>

\* the call returns for the array
Generate ==
    /\ ~generated.done
    /\ generated' = Returned(generateSuggestionsWithLLM(
                                 OpenAiConfig, [kind |-> "array", items |-> parsed]))
    /\ UNCHANGED <<messages, viewVars, hookVars, parsed, inputVars>>

(* saveSuggestionsToCache alone: sets are written under fresh keys and     *)
(* under keys the cache has                                                *)

\* the set written over an entry
RewrittenSet == <<Suggestion(Str("g", 1, 8, 2), Str("g-full", 1, 120, 20))>>

\* a set is written under the key of a fresh message
WriteFreshKey ==
    /\ nextId <= MaxWrites
    /\ \E value \in PushedSets :
          cache' = saveSuggestionsToCache(cache, CacheKey(threadId, nextId), value)
    /\ nextId' = nextId + 1
    /\ UNCHANGED <<messages, viewVars, threadId, isLoading, agentSuggestions,
                   suggestions, isRefreshing, prevIsLoadingRef, lastMessageIdRef,
                   prevAgentSuggestionsRef, inflight, store, lastGen, callVars, inputVars>>

\* another set is written under a key the cache has
RewriteKey ==
    /\ Cardinality({k \in 1..Len(cache) : cache[k].value = RewrittenSet}) < MaxRewrites
    /\ \E k \in 1..Len(cache) :
          cache' = saveSuggestionsToCache(cache, cache[k].key, RewrittenSet)
    /\ UNCHANGED <<messages, viewVars, threadId, isLoading, agentSuggestions,
                   suggestions, isRefreshing, prevIsLoadingRef, lastMessageIdRef,
                   prevAgentSuggestionsRef, inflight, store, nextId, lastGen, callVars, inputVars>>

(* ChatInterface, the chat input alone: the user types, submits with the   *)
(* button or the Enter key, and stops a run; a run ends, possibly paused   *)
(* at an approval interrupt, and an interrupt is resumed.  The state of    *)
(* the suggestion hook is left where it is.                                *)

\* the characters String.prototype.trim removes
Whitespace == {" ", "\n"}

\* the texts the user types, as sequences of characters
InputTexts == {<<>>, <<" ">>, <<"h", "i">>, <<" ", "h", "i", "\n">>}

RECURSIVE TrimStart(_)
TrimStart(chars) ==
    IF chars # <<>> /\ Head(chars) \in Whitespace THEN TrimStart(Tail(chars)) ELSE chars

RECURSIVE TrimEnd(_)
TrimEnd(chars) ==
    IF chars # <<>> /\ chars[Len(chars)] \in Whitespace
    THEN TrimEnd(SubSeq(chars, 1, Len(chars) - 1))
    ELSE chars

\* input.trim()
trim(chars) == TrimEnd(TrimStart(chars))

\* a text as the content of a message
TextSegs(chars) == [k \in 1..Len(chars) |-> Txt(chars[k])]

showLoadingState == isLoading

submitDisabled == isLoading \/ ~assistant

\* the user_context block sendMessage puts before the text, and its separator
ContextPrefix == <<Txt("<user_context>{}</user_context>"), Txt("\n\n")>>

\* sendMessage(content): the message goes to stream.submit with the context
\* before it, the list shows it at once without, and the run starts
sendMessage(content, isContextEmpty) ==
    LET enhancedContent == IF isContextEmpty THEN content ELSE ContextPrefix \o content
        newId == Len(messages) + 1
    IN  /\ submitted' = Append(submitted, WithId(HumanMsg(enhancedContent), newId))
        /\ messages' = Append(messages, WithId(HumanMsg(content), newId))
        /\ isLoading' = TRUE
        /\ interrupt' = interrupt
        /\ Derive

\* handleSubmit(): returns early on an empty text, a running stream or a
\* disabled form; otherwise sends the trimmed text and clears the input
handleSubmit(isContextEmpty) ==
    LET messageText == trim(input)
    IN  IF messageText = <<>> \/ showLoadingState \/ submitDisabled
        THEN UNCHANGED <<messages, viewVars, isLoading, inputVars>>
        ELSE /\ sendMessage(TextSegs(messageText), isContextEmpty)
             /\ input' = <<>>
             /\ assistant' = assistant

\* the state of useSuggestions and of the single calls
restVars == <<threadId, agentSuggestions, suggestions, isRefreshing, prevIsLoadingRef,
              lastMessageIdRef, prevAgentSuggestionsRef, cache, inflight, store,
              nextId, lastGen, callVars>>

\* onChange of the textarea
setInput ==
    /\ \E text \in InputTexts \ {input} : input' = text
    /\ UNCHANGED <<messages, viewVars, isLoading, assistant, submitted, restVars>>

\* the assistant prop arrives or goes
SetAssistant ==
    /\ assistant' = ~assistant
    /\ UNCHANGED <<messages, viewVars, isLoading, input, submitted, restVars>>

\* the send button, enabled and not showing Stop, is pressed
ClickSend ==
    /\ Len(submitted) < MaxSubmits
    /\ ~showLoadingState
    /\ ~(submitDisabled \/ trim(input) = <<>>)
    /\ \E isContextEmpty \in BOOLEAN : handleSubmit(isContextEmpty)
    /\ UNCHANGED restVars

\* onKeyDown of the textarea
handleKeyDown ==
    /\ Len(submitted) < MaxSubmits
    /\ \E key \in {"Enter", "a"} : \E shiftKey \in BOOLEAN :
          IF submitDisabled
          THEN UNCHANGED <<messages, viewVars, isLoading, inputVars>>
          ELSE IF key = "Enter" /\ ~shiftKey
               THEN \E isContextEmpty \in BOOLEAN : handleSubmit(isContextEmpty)
               ELSE UNCHANGED <<messages, viewVars, isLoading, inputVars>>
    /\ UNCHANGED restVars

\* the button shows Stop while the stream runs: stream.stop()
stopStream ==
    /\ showLoadingState
    /\ isLoading' = FALSE
    /\ UNCHANGED <<messages, viewVars, inputVars, restVars>>

\* the run ends, finished or paused at an approval interrupt
RunEnds ==
    /\ isLoading
    /\ isLoading' = FALSE
    /\ \E paused \in BOOLEAN : interrupt' = paused
    /\ messages' = messages
    /\ Derive
    /\ UNCHANGED <<inputVars, restVars>>

\* the approval is given or refused: the run resumes
resumeInterrupt ==
    /\ interrupt
    /\ ~isLoading
    /\ isLoading' = TRUE
    /\ interrupt' = FALSE
    /\ messages' = messages
    /\ Derive
    /\ UNCHANGED <<inputVars, restVars>>

vars == <<messages, interrupt, skipIndices, processedMessages, threadId, isLoading,
          agentSuggestions, suggestions, isRefreshing, prevIsLoadingRef,
          lastMessageIdRef, prevAgentSuggestionsRef, cache, inflight, store, nextId,
          lastGen, parsed, generated, input, assistant, submitted>>

StreamNext == AppendMessage \/ SetInterrupt

StreamSpec == Init /\ [][StreamNext]_vars

PhaseNext == AppendPhaseMessage \/ SetInterrupt

PhaseSpec == Init /\ [][PhaseNext]_vars

DelegationNext == AppendDelegationMessage \/ SetInterrupt

DelegationSpec == Init /\ [][DelegationNext]_vars

GenNext == AddItem \/ Generate

GenSpec == Init /\ [][GenNext]_vars

CacheNext == WriteFreshKey \/ RewriteKey

CacheSpec == Init /\ [][CacheNext]_vars

InputNext ==
    \/ setInput
    \/ SetAssistant
    \/ ClickSend
    \/ handleKeyDown
    \/ stopStream
    \/ RunEnds
    \/ resumeInterrupt

InputSpec == Init /\ [][InputNext]_vars

SuggestNext ==
    \/ StartTurn
    \/ StreamMessage
    \/ FinishTurn
    \/ PushSuggestions
    \/ ThreadCreated
    \/ SwitchThread
    \/ HistoryLoaded
    \/ RefreshSuggestions
    \/ GenerationCompletes

SuggestSpec == Init /\ [][SuggestNext]_vars

\* the completion call of a suspended generation resolves or rejects in the end
SuggestLiveSpec == SuggestSpec /\ WF_vars(GenerationCompletes)

----------------------------------------------------------------------------
(* Vocabulary of the properties of the derived view *)

\* every tool invocation the message carries, in any of the three shapes
RawCallsOf(m) ==
    m.ak.calls \o m.tc.calls
    \o (IF m.content.isArray THEN ToolUseBlocks(m.content.blocks) ELSE <<>>)

\* the message carries one or more tool invocations
CarriesToolInvocation(m) == Len(RawCallsOf(m)) > 0

\* the message at i issues a tool call with id t
Issues(i, t) ==
    /\ messages[i].type = "ai"
    /\ \E j \in 1..Len(RawCallsOf(messages[i])) : RawCallsOf(messages[i])[j].id = t

\* tool-call ids are distinct across the list
DistinctToolCallIds ==
    \A i1, i2 \in 1..Len(messages) :
        \A j1 \in 1..Len(RawCallsOf(messages[i1])) :
            \A j2 \in 1..Len(RawCallsOf(messages[i2])) :
                (<<i1, j1>> # <<i2, j2>>)
                    => RawCallsOf(messages[i1])[j1].id # RawCallsOf(messages[i2])[j2].id

\* the message at i carries a marker of phase p with this status
IsMarker(i, p, status) ==
    /\ i \in PhaseStatusKeys(messages)
    /\ PhaseStatusAt(messages, i) = [phase |-> p, status |-> status]

\* the index of the first completed marker of phase p, or 0
FirstCompleted(p) ==
    IF \E j \in 1..Len(messages) : IsMarker(j, p, "completed")
    THEN CHOOSE j \in 1..Len(messages) :
            /\ IsMarker(j, p, "completed")
            /\ \A h \in 1..(j - 1) : ~IsMarker(h, p, "completed")
    ELSE 0

\* the message at i has an entry in the visible list
Visible(i) ==
    \E e \in 1..Len(processedMessages) : processedMessages[e].message.id = messages[i].id

\* the tool calls of the view, entry by entry
ToolCallStates(view) == [e \in 1..Len(view) |-> view[e].toolCalls]

\* the view holds a tool call with this id that is not completed yet
HasOpenToolCall(view, ref) ==
    \E e \in 1..Len(view) : \E j \in 1..Len(view[e].toolCalls) :
        /\ view[e].toolCalls[j].id = ref
        /\ view[e].toolCalls[j].status # "completed"

\* this step appends one tool_result message and leaves the interrupt alone
AppendsToolResult ==
    /\ Len(messages') = Len(messages) + 1
    /\ SubSeq(messages', 1, Len(messages)) = messages
    /\ messages'[Len(messages')].type = "tool"
    /\ interrupt' = interrupt

----------------------------------------------------------------------------
(* C1: a tool call t issued by an agent message and answered by a later    *)
(* tool_result with toolResultRef = t is in the derived view as completed, *)
(* with the normalized text of that tool_result as its result, whatever    *)
(* the interrupt and the phase markers of the list.                        *)
C1_ResultAttached ==
    DistinctToolCallIds =>
        \A i, k \in 1..Len(messages) :
            (/\ i < k
             /\ messages[k].type = "tool"
             /\ ~Falsy(messages[k].tool_call_id)
             /\ Issues(i, messages[k].tool_call_id))
            => \E e \in 1..Len(processedMessages) :
                   \E j \in 1..Len(processedMessages[e].toolCalls) :
                       LET tc == processedMessages[e].toolCalls[j]
                       IN  /\ tc.id = messages[k].tool_call_id
                           /\ tc.status = "completed"
                           /\ tc.hasResult
                           /\ tc.result = extractStringFromMessageContent(messages[k])

(* C2: a tool_result whose toolResultRef matches no tool call that is      *)
(* still open (unknown id, missing ref, duplicate result) changes neither  *)
(* the status nor the result of any tool call.                             *)
C2_LateResultIsNoOp ==
    [][(/\ AppendsToolResult
        /\ ~HasOpenToolCall(processedMessages, messages'[Len(messages')].tool_call_id))
       => ToolCallStates(processedMessages') = ToolCallStates(processedMessages)]_vars

(* C3: for a phase p with a started marker at i and its first completed    *)
(* marker at j > i, the skip-set contains i and every agent message        *)
(* strictly between i and j that carries no tool invocation.               *)
C3_RangeHidden ==
    \A p \in Phases : \A i \in 1..Len(messages) :
        (IsMarker(i, p, "started") /\ FirstCompleted(p) > i)
        => /\ i \in skipIndices
           /\ \A k \in (i + 1)..(FirstCompleted(p) - 1) :
                  (messages[k].type = "ai" /\ ~CarriesToolInvocation(messages[k]))
                  => k \in skipIndices

(* C4, as stated: no agent message that carries a tool invocation is in    *)
(* the skip-set; each one is in the visible list.                          *)
C4_NoToolMessageHidden ==
    \A i \in 1..Len(messages) :
        (messages[i].type = "ai" /\ CarriesToolInvocation(messages[i]))
        => (i \notin skipIndices /\ Visible(i))

(* C4, amended: an agent message that carries a tool invocation is in the  *)
(* skip-set only when it is itself the started marker of a phase that has  *)
(* a completed marker; every other such message is in the visible list     *)
(* with one derived tool call per extracted invocation.                    *)
C4_ToolMessageHiddenOnlyAsStarted ==
    \A i \in 1..Len(messages) :
        (messages[i].type = "ai" /\ CarriesToolInvocation(messages[i]))
        => \/ \E p \in CompletedPhases(messages) : IsMarker(i, p, "started")
           \/ /\ i \notin skipIndices
              /\ \E e \in 1..Len(processedMessages) :
                    /\ processedMessages[e].message.id = messages[i].id
                    /\ Len(processedMessages[e].toolCalls)
                         = Len(ToolCallsInMessage(messages[i]))

\* a tool-carrying agent message inside a collapsed range stays visible
C4_Witness ==
    \E i \in 1..Len(messages) : \E p \in CompletedPhases(messages) :
        /\ messages[i].type = "ai" /\ CarriesToolInvocation(messages[i])
        /\ StartedIndex(messages, p) # 0
        /\ StartedIndex(messages, p) < i /\ i < CompletedIndex(messages, p)
        /\ StartedIndex(messages, p) \in skipIndices
        /\ i \notin skipIndices
        /\ \E e \in 1..Len(processedMessages) :
              /\ processedMessages[e].message.id = messages[i].id
              /\ Len(processedMessages[e].toolCalls) > 0

(* C5: a message carrying a completed phase marker is never in the         *)
(* skip-set.                                                               *)
C5_CompletedMarkerVisible ==
    \A i \in 1..Len(messages) : \A p \in Phases :
        IsMarker(i, p, "completed") => i \notin skipIndices

(* C6: a started marker whose phase has no later completed marker is never *)
(* in the skip-set.                                                        *)
C6_RunningPhaseVisible ==
    \A i \in 1..Len(messages) : \A p \in Phases :
        (/\ IsMarker(i, p, "started")
         /\ ~\E j \in (i + 1)..Len(messages) : IsMarker(j, p, "completed"))
        => i \notin skipIndices

----------------------------------------------------------------------------
(* Vocabulary of the properties of the hook *)

\* the number of suspended generation calls whose key is of this conversation
InFlightFor(calls, thread) ==
    Cardinality({k \in 1..Len(calls) : calls[k].key.thread = thread})

\* the cache-key prefixes of the conversations
KeyThreads == {CacheKey(t, 0).thread : t \in Threads \cup {NoThread}}

\* this step is the resumption of the k-th suspended call: the props stay and
\* the call leaves the list
Resumes(k) ==
    /\ k \in 1..Len(inflight)
    /\ inflight' = SubSeq(inflight, 1, k - 1) \o SubSeq(inflight, k + 1, Len(inflight))
    /\ messages' = messages
    /\ threadId' = threadId
    /\ isLoading' = isLoading

\* a newer trigger has moved the observed last-message id past the message of
\* the k-th suspended call, or the conversation is another one by now
Superseded(k) ==
    /\ lastMessageIdRef # inflight[k].key.id
    /\ \/ lastMessageIdRef > inflight[k].key.id
       \/ inflight[k].key.thread # CacheKey(threadId, 0).thread

(* C7: a change of the message list or of the loading flag that happens    *)
(* while a generation of the conversation is in flight starts no second    *)
(* generation for that conversation.                                       *)
C7_SingleGenerationInFlight ==
    [][(messages' # messages \/ isLoading' # isLoading)
       => \A t \in KeyThreads :
              InFlightFor(inflight, t) >= 1
              => InFlightFor(inflight', t) <= InFlightFor(inflight, t)]_vars

(* C8: when a generation call resumes after the observed last-message id   *)
(* has moved on (a newer turn finished, or the conversation was switched), *)
(* the displayed set stays what it was.                                    *)
C8_SupersededResultIgnored ==
    [][\A k \in 1..Len(inflight) :
          (Resumes(k) /\ Superseded(k)) => suggestions' = suggestions]_vars

(* C9: while the backend's pushed set of the turn is non-empty, the        *)
(* displayed set is that pushed set.                                       *)
C9_PushedSetDisplayed ==
    Len(agentSuggestions) > 0 => suggestions = agentSuggestions

(* C10: a generation that fell back (transport failure, non-OK response,   *)
(* malformed or short response, unsupported provider, missing key) leaves  *)
(* the defaults as the displayed set and the hook out of its refreshing    *)
(* state.                                                                  *)
C10_FailedGenerationYieldsDefaults ==
    lastGen \in {"failed", "noRequest"}
        => (suggestions = DEFAULT_SUGGESTIONS /\ ~isRefreshing)

\* the request of a generation has just failed while the pushed set was on
\* display; the defaults are displayed and its key holds them
C10_Witness ==
    /\ lastGen = "failed"
    /\ Len(agentSuggestions) > 0
    /\ LastAIIndex(messages) # 0
    /\ suggestions = DEFAULT_SUGGESTIONS
    /\ ~isRefreshing
    /\ \E k \in 1..Len(cache) : cache[k].value = DEFAULT_SUGGESTIONS

----------------------------------------------------------------------------
(* Vocabulary of the properties over growing lists *)

\* the tool call at position j of the entry of message id in the view is
\* completed
CompletedIn(view, id, j) ==
    \E e \in 1..Len(view) :
        /\ view[e].message.id = id
        /\ j \in 1..Len(view[e].toolCalls)
        /\ view[e].toolCalls[j].status = "completed"

\* the tool call at position j of the entry of message id in the view is
\* pending or interrupted
OpenIn(view, id, j) ==
    \E e \in 1..Len(view) :
        /\ view[e].message.id = id
        /\ j \in 1..Len(view[e].toolCalls)
        /\ view[e].toolCalls[j].status \in {"pending", "interrupted"}

\* the ids of the messages and the positions of their tool calls
CallSlots(msgs) ==
    {<<msgs[i].id, j>> : i \in 1..Len(msgs), j \in 1..2}

(* C11: when the list grows by appending (or only the interrupt changes),  *)
(* a tool call that is completed in the view before the step is not        *)
(* pending or interrupted in the view after it.                            *)
C11_CompletedNeverRegresses ==
    [][\A slot \in CallSlots(messages) :
          CompletedIn(processedMessages, slot[1], slot[2])
          => ~OpenIn(processedMessages', slot[1], slot[2])]_vars

\* status and result of the tool calls of the view whose invocation has an id
IdCallStates(view) ==
    LET slots == {sl \in (1..Len(view)) \X (1..2) :
                    /\ view[sl[1]].message.type = "ai"
                    /\ sl[2] <= Len(view[sl[1]].toolCalls)
                    /\ sl[2] <= Len(ToolCallsInMessage(view[sl[1]].message))
                    /\ ~Falsy(ToolCallsInMessage(view[sl[1]].message)[sl[2]].id)}
    IN  {<<view[sl[1]].message.id, sl[2], view[sl[1]].toolCalls[sl[2]].status,
           view[sl[1]].toolCalls[sl[2]].hasResult,
           view[sl[1]].toolCalls[sl[2]].result>> : sl \in slots}

----------------------------------------------------------------------------
(* Vocabulary of the properties of the generated batch *)

\* the item has both fields as strings and a full text of 15 tokens or more
AcceptableItem(s) ==
    s.short.kind = "string" /\ s.full.kind = "string" /\ s.full.words >= 15

\* the same suggestion, whatever happened to the length of its label
SameSuggestion(a, b) ==
    /\ a.full = b.full
    /\ a.short.kind = b.short.kind /\ a.short.txt = b.short.txt /\ a.short.n = b.short.n

(* C13: the call returns the first 20 valid items of the array, in the     *)
(* order of the response, when 3 or more items are valid, and the 20-entry *)
(* default set when fewer are.                                             *)
C13_BatchValidated ==
    generated.done =>
        LET valid == SelectSeq(parsed, AcceptableItem)
        IN  IF Len(valid) >= 3
            THEN /\ Len(generated.value) = (IF Len(valid) > 20 THEN 20 ELSE Len(valid))
                 /\ \A k \in 1..Len(generated.value) :
                        SameSuggestion(generated.value[k], valid[k])
            ELSE /\ generated.value = DEFAULT_SUGGESTIONS
                 /\ Len(generated.value) = 20

\* an array with more than 20 valid items and an invalid one among them
C13_Witness ==
    /\ generated.done
    /\ Len(SelectSeq(parsed, AcceptableItem)) > 20
    /\ Len(SelectSeq(parsed, AcceptableItem)) < Len(parsed)
    /\ Len(generated.value) = 20

(* C14: when a generation started by a miss on key K comes back failed,    *)
(* the displayed set is the default set and the cache still has no entry   *)
(* under K.                                                                *)
C14_FailedGenerationNotCached ==
    [][\A k \in 1..Len(inflight) :
          (/\ Resumes(k)
           /\ lastGen' = "failed"
           /\ ~CacheHas(cache, inflight[k].key))
          => /\ suggestions' = DEFAULT_SUGGESTIONS
             /\ ~CacheHas(cache', inflight[k].key)]_vars

----------------------------------------------------------------------------
(* Vocabulary of the properties of the cache *)

\* the keys of the cache, in their order
KeysOf(c) == [k \in 1..Len(c) |-> c[k].key]

\* this step wrote value under key: the entry is there, and the keys that are
\* left are the last ones of the keys before the write, with key at its place
\* or appended
WroteEvictingOldest(key, value) ==
    LET before == KeysOf(cache)
        all == IF \E k \in 1..Len(before) : before[k] = key
               THEN before ELSE Append(before, key)
        after == KeysOf(cache')
    IN  /\ \E k \in 1..Len(cache') : cache'[k] = [key |-> key, value |-> value]
        /\ Len(after) <= 50
        /\ Len(after) = (IF Len(all) > 50 THEN 50 ELSE Len(all))
        /\ after = SubSeq(all, Len(all) - Len(after) + 1, Len(all))
        /\ \A k \in 1..Len(cache') :
              cache'[k].key # key
              => \E h \in 1..Len(cache) : cache[h] = cache'[k]

ValueUnder(c, key) == c[CHOOSE k \in 1..Len(c) : c[k].key = key].value

(* C16: once a set is stored under a key, no later step stores another     *)
(* value under that key.                                                   *)
C16_WrittenOncePerKey ==
    [][\A k \in 1..Len(cache) :
          CacheHas(cache', cache[k].key)
          => ValueUnder(cache', cache[k].key) = cache[k].value]_vars

----------------------------------------------------------------------------
(* Vocabulary of the properties of the phase details *)

\* the normalized texts of the agent messages among the indices lo..hi that
\* the skip-set hides, in stream order
RECURSIVE HiddenTexts(_, _)
HiddenTexts(lo, hi) ==
    IF lo > hi THEN <<>>
    ELSE (IF lo \in skipIndices /\ messages[lo].type = "ai"
          THEN <<extractStringFromMessageContent(messages[lo])>>
          ELSE <<>>)
         \o HiddenTexts(lo + 1, hi)

(* C17: the detail text of a visible completed marker that closes the      *)
(* paired range of its phase is the text of the agent messages the         *)
(* skip-set hides strictly inside that range, in order, joined by a blank  *)
(* line; nothing of a visible message is in it.                            *)
C17_DetailsAreHiddenTexts ==
    \A p \in Phases : \A c \in 1..Len(messages) :
        (/\ IsMarker(c, p, "completed")
         /\ Visible(c)
         /\ c = CompletedIndex(messages, p)
         /\ StartedIndex(messages, p) # 0
         /\ StartedIndex(messages, p) < c)
        => phaseDetails(messages, c).text
             = JoinDetails(HiddenTexts(StartedIndex(messages, p) + 1, c - 1))

----------------------------------------------------------------------------
(* The chat input *)

\* C18: while an approval interrupt is open, no step hands a message to the
\* backend: a submit from the chat input (button or Enter key) sends nothing
\* until the interrupt is resolved
C18_InputSuppressedWhileInterrupted ==
    [][interrupt => submitted' = submitted]_vars

----------------------------------------------------------------------------
(* The pairing of the phase markers *)

\* phase p has a started marker and a completed marker after it
Paired(p) ==
    \E i, j \in 1..Len(messages) :
        i < j /\ IsMarker(i, p, "started") /\ IsMarker(j, p, "completed")

\* this step appends one message, a marker of phase p, and leaves the
\* interrupt alone
AppendsMarkerOf(p) ==
    /\ Len(messages') = Len(messages) + 1
    /\ SubSeq(messages', 1, Len(messages)) = messages
    /\ Len(messages') \in PhaseStatusKeys(messages')
    /\ PhaseStatusAt(messages', Len(messages')).phase = p
    /\ interrupt' = interrupt

\* C19: the hidden range of a phase is delimited by its earliest started
\* marker and the earliest completed marker after it, so a later marker of a
\* phase that has both leaves the skip-set as it is
C19_LaterMarkersKeepRange ==
    [][\A p \in Phases :
          (Paired(p) /\ AppendsMarkerOf(p)) => skipIndices' = skipIndices]_vars

\* the message at i lies inside a started-completed pair of a phase other than p
InsideOtherPhase(i, p) ==
    \E q \in Phases \ {p} : \E a, b \in 1..Len(messages) :
        a < i /\ i < b /\ IsMarker(a, q, "started") /\ IsMarker(b, q, "completed")

\* C20: a phase with no started marker before a completed marker of its own
\* contributes nothing to the skip-set: the skip-set is empty when no phase
\* has such a pair, and a started marker of the phase, the one after the
\* completion included, is hidden by another phase's range or not at all
C20_UnpairedPhaseHidesNothing ==
    /\ (\A p \in Phases : ~Paired(p)) => skipIndices = {}
    /\ \A p \in Phases : \A i \in 1..Len(messages) :
          (~Paired(p) /\ IsMarker(i, p, "started") /\ ~InsideOtherPhase(i, p))
          => i \notin skipIndices

\* the index of the first error marker of phase p, or 0
FirstError(p) ==
    IF \E j \in 1..Len(messages) : IsMarker(j, p, "error")
    THEN CHOOSE j \in 1..Len(messages) :
            /\ IsMarker(j, p, "error")
            /\ \A h \in 1..(j - 1) : ~IsMarker(h, p, "error")
    ELSE 0

\* C21: a phase that ends with status error is resolved like a completed
\* one: with a started marker at i and the first error marker at j > i, the
\* message at i and every agent message without tool calls strictly between
\* i and j are in the skip-set
C21_ErrorPhaseHidden ==
    \A p \in Phases : \A i \in 1..Len(messages) :
        (IsMarker(i, p, "started") /\ FirstError(p) > i)
        => /\ i \in skipIndices
           /\ \A k \in (i + 1)..(FirstError(p) - 1) :
                  (messages[k].type = "ai" /\ ~CarriesToolInvocation(messages[k]))
                  => k \in skipIndices

----------------------------------------------------------------------------
(* The triggers of the suggestion generations *)

\* C22: no two generation calls for the same cache key (conversation and
\* last agent message) are in flight at the same time, whatever the order of
\* loading transitions, list updates, conversation switches and refreshes
C22_OneGenerationPerKey ==
    \A k1, k2 \in 1..Len(inflight) :
        k1 # k2 => inflight[k1].key # inflight[k2].key

\* this step takes the loading flag from true to false with an agent message
\* in the list
TurnEnds ==
    /\ isLoading
    /\ ~isLoading'
    /\ LastAIIndex(messages') # 0

\* the cache key of the list and conversation after the step
KeyAfter == CacheKey(threadId', getLastAIMessageContext(messages'))

\* this step starts exactly one generation, for the key after the step: one
\* call more is suspended, or the call returned with no request in the step
StartsOneGeneration ==
    \/ /\ inflight' = Append(inflight, [key |-> KeyAfter, returned |-> FALSE])
       /\ lastGen' = NoGen
    \/ /\ inflight' = inflight
       /\ lastGen' = "noRequest"

\* this step starts no generation
StartsNoGeneration ==
    /\ inflight' = inflight
    /\ lastGen' = NoGen

\* the cache holds the key when the loading effect reads it: it held it before
\* the step, or the pushed set of this step was written under it
CachedAtTrigger ==
    \/ CacheHas(cache, KeyAfter)
    \/ Len(agentSuggestions') > 0 /\ agentSuggestions' # prevAgentSuggestionsRef

\* C23: when the loading flag goes from true to false and the id of the last
\* agent message is not the observed one, a cached key gives the cached set
\* and no generation, a missing key gives exactly one generation with the
\* observed id set to the new id; when the id is the observed one, nothing
\* starts
C23_TurnEndTrigger ==
    [][TurnEnds =>
         IF getLastAIMessageContext(messages') # lastMessageIdRef
         THEN IF CachedAtTrigger
              THEN /\ suggestions' = getCachedSuggestions(cache', KeyAfter)
                   /\ StartsNoGeneration
              ELSE /\ StartsOneGeneration
                   /\ lastMessageIdRef' = getLastAIMessageContext(messages')
         ELSE StartsNoGeneration]_vars

\* a turn has ended on a new agent message whose key the cache lacked: one
\* generation for that key is suspended and the observed id is the new id
C23_Witness ==
    /\ ~isLoading
    /\ ~prevIsLoadingRef
    /\ LastAIIndex(messages) # 0
    /\ lastMessageIdRef = getLastAIMessageContext(messages)
    /\ inflight = <<[key |-> CacheKey(threadId, lastMessageIdRef), returned |-> FALSE]>>
    /\ ~CacheHas(cache, CacheKey(threadId, lastMessageIdRef))
    /\ isRefreshing

\* this step loads or reloads the conversation (its id or its list changes)
\* while the agent is not producing output, and the list has an agent message
ConversationLoaded ==
    /\ threadId' # threadId \/ messages' # messages
    /\ ~isLoading'
    /\ LastAIIndex(messages') # 0

\* C24: when a conversation is loaded or reloaded while the agent is not
\* producing output, it has a last agent message and the cache lacks its
\* key, a generation for that key is started (or is in flight already)
C24_LoadTrigger ==
    [][(ConversationLoaded /\ ~CachedAtTrigger)
       => \/ StartsOneGeneration
          \/ \E k \in 1..Len(inflight) : inflight[k].key = KeyAfter]_vars

----------------------------------------------------------------------------
(* The order of the correlation *)

\* the tool calls of the view with this id, as <<entry, position>>
SlotsWithId(view, id) ==
    {s \in (1..Len(view)) \X (1..2) :
        /\ s[2] <= Len(view[s[1]].toolCalls)
        /\ view[s[1]].toolCalls[s[2]].id = id}

\* slot a comes before slot b in stream order
SlotBefore(a, b) == a[1] < b[1] \/ (a[1] = b[1] /\ a[2] < b[2])

\* the tool_result messages of the list that refer to this id
ResultsFor(id) ==
    {k \in 1..Len(messages) : messages[k].type = "tool" /\ messages[k].tool_call_id = id}

\* the tool call at this slot is completed with the text of message k
CompletedBy(view, s, k) ==
    /\ view[s[1]].toolCalls[s[2]].status = "completed"
    /\ view[s[1]].toolCalls[s[2]].result = extractStringFromMessageContent(messages[k])

\* C25: a tool_result completes the first tool call, in stream order, that
\* has its id and is not completed yet: when two tool calls carry the same
\* id and two results with that id follow them, the first result completes
\* the first tool call and the second result the second
C25_ResultsCompleteInOrder ==
    \A id \in {"t1", "t2"} : \A a, b \in SlotsWithId(processedMessages, id) :
    \A k1, k2 \in ResultsFor(id) :
        (/\ SlotsWithId(processedMessages, id) = {a, b}
         /\ SlotBefore(a, b)
         /\ ResultsFor(id) = {k1, k2}
         /\ k1 < k2
         /\ processedMessages[b[1]].message.id < messages[k1].id)
        => /\ CompletedBy(processedMessages, a, k1)
           /\ CompletedBy(processedMessages, b, k2)

----------------------------------------------------------------------------
(* The shapes of the tool invocations *)

\* the raw invocations of the first shape that is not empty, in the order
\* additional_kwargs.tool_calls, tool_calls, tool_use blocks
FirstNonEmptyShape(m) ==
    IF m.ak.present /\ Len(m.ak.calls) > 0 THEN m.ak.calls
    ELSE IF m.tc.present /\ Len(m.tc.calls) > 0 THEN m.tc.calls
    ELSE IF m.content.isArray THEN ToolUseBlocks(m.content.blocks)
    ELSE <<>>

\* C26: the tool calls of a visible agent message come from the first shape
\* that is not empty; a shape that is present and empty does not keep a later
\* one from being used, so a message that counts as having tool calls for
\* the hiding has a derived tool-call list that is not empty
C26_FirstNonEmptyShapeUsed ==
    \A e \in 1..Len(processedMessages) :
        LET m == processedMessages[e].message
        IN  m.type = "ai"
            => /\ Len(processedMessages[e].toolCalls) = Len(FirstNonEmptyShape(m))
               /\ hasToolCalls(m) => Len(processedMessages[e].toolCalls) > 0

----------------------------------------------------------------------------
(* The end of the generations *)

\* C27: provided the completion call comes back, a generation that started
\* ends and the regenerating flag is false again: the manager does not stay
\* in generating forever
C27_GenerationEnds == isRefreshing ~> ~isRefreshing

\* a generation that sent its request has ended: the flag is false and no
\* call is suspended
C27_Witness ==
    /\ lastGen \in {"generated", "failed"}
    /\ ~isRefreshing
    /\ inflight = <<>>
    /\ suggestions # <<>>

\* C28: the regenerating flag is true exactly in the states in which a
\* generation call is in flight: the end of one generation does not clear
\* it while another one is pending
C28_FlagTracksInFlight == isRefreshing <=> Len(inflight) > 0

----------------------------------------------------------------------------
(* The keys of the cache writes *)

\* the keys this step wrote: new in the cache, or with another set than before
WrittenKeys ==
    {cache'[c].key : c \in {x \in 1..Len(cache') :
        \/ ~CacheHas(cache, cache'[x].key)
        \/ getCachedSuggestions(cache, cache'[x].key) # cache'[x].value}}

\* the key of the conversation and of the last agent message of the list
\* after the step
IsKeyOfLastAgentMessage(key) ==
    /\ LastAIIndex(messages') # 0
    /\ key = KeyAfter

\* C29: every cache write, of a pushed set or of a completed generation,
\* goes under the key of the conversation and of the last agent message of
\* the list that triggered it: a completion writes the key its call
\* captured, every other write and every call that starts takes the key of
\* the current list, and the id of the key is that of an agent message
C29_WritesUnderTriggerKey ==
    [][/\ \A key \in WrittenKeys :
             \/ \E k \in 1..Len(inflight) : Resumes(k) /\ key = inflight[k].key
             \/ IsKeyOfLastAgentMessage(key)
       /\ Len(inflight') > Len(inflight)
             => IsKeyOfLastAgentMessage(inflight'[Len(inflight')].key)]_vars

----------------------------------------------------------------------------
(* The projections of the tool calls *)

\* C30: every tool call of a visible agent message that is no phase marker
\* is shown by exactly one projection: as a tool-call entry (its name is not
\* the delegation name) or as a sub-agent entry (a delegation with a target
\* agent); none is dropped from both
C30_EveryToolCallProjected ==
    \A e \in 1..Len(processedMessages) :
        LET m == processedMessages[e].message
            toolCalls == processedMessages[e].toolCalls
        IN  (m.type = "ai" /\ parsePhaseStatus(extractStringFromMessageContent(m)).isNull)
            => /\ Len(subAgents(toolCalls)) + Len(displayableToolCalls(toolCalls))
                    = Len(toolCalls)
               /\ \A j \in 1..Len(toolCalls) :
                     (\E s \in 1..Len(subAgents(toolCalls)) :
                          /\ subAgents(toolCalls)[s].id = toolCalls[j].id
                          /\ subAgents(toolCalls)[s].input = toolCalls[j].args)
                     # (\E d \in 1..Len(displayableToolCalls(toolCalls)) :
                            displayableToolCalls(toolCalls)[d] = toolCalls[j])

====
